---- MODULE Spec2Model ----
(***************************************************************************)
(* The mirror-field engine of mrrcrypt (src/modules/mirrorfield.c): the    *)
(* key loader (mirrorfield_set), the validator (mirrorfield_validate), the *)
(* per-character transform (mirrorfield_crypt_char) and the perimeter roll *)
(* (mirrorfield_roll_chars), as operators over the module's static state;  *)
(* and the scrambler of the key generator (keyfile_shuffle_string,         *)
(* src/modules/keyfile.c).                                                 *)
(***************************************************************************)
EXTENDS Integers, Sequences, FiniteSets, TLC

(***************************************************************************)
(* Program constants.                                                      *)
(***************************************************************************)
\* GRID_SIZE comes from main.h; the model fixes a small even deployment.
GRID_SIZE == 2

MIRROR_NONE == 3
MIRROR_FORWARD == 0
MIRROR_STRAIGHT == 1
MIRROR_BACKWARD == 2
DIR_DOWN == 1
DIR_LEFT == 2
DIR_RIGHT == 3
DIR_UP == 4

\* The glyphs mirrorfield_set compares against: '/', '\\', '-', ' '.
CH_SLASH == 47
CH_BACKSLASH == 92
CH_DASH == 45
CH_SPACE == 32

NCELLS == GRID_SIZE * GRID_SIZE
NPERIM == GRID_SIZE * 4

Cells == 0 .. (NCELLS - 1)
Slots == 0 .. (NPERIM - 1)

(***************************************************************************)
(* The module's static state as one record: grid, perimeterChars, the      *)
(* counter `i` of mirrorfield_set, evenodd of mirrorfield_crypt_char, and  *)
(* lastStartCharPos / lastEndCharPos of mirrorfield_roll_chars.            *)
(***************************************************************************)
StaticInit ==
    [ grid             |-> [t \in Cells |-> 0],
      perimeterChars   |-> [t \in Slots |-> 0],
      set_i            |-> -1,
      evenodd          |-> 0,
      lastStartCharPos |-> -1,
      lastEndCharPos   |-> -1 ]

\* memset of grid and perimeterChars; nothing else is touched.
mirrorfield_init(E) ==
    [E EXCEPT !.grid = [t \in Cells |-> 0],
              !.perimeterChars = [t \in Slots |-> 0]]

\* MirrorCode with the codes of '\\' and '-' exchanged.
MirrorCode_Exchanged(ch) ==
    IF ch = CH_SLASH THEN MIRROR_FORWARD
    ELSE IF ch = CH_BACKSLASH THEN MIRROR_STRAIGHT
    ELSE IF ch = CH_DASH THEN MIRROR_BACKWARD
    ELSE IF ch = CH_SPACE THEN MIRROR_NONE
    ELSE -1

\* The if-chain of the "Set Mirror Char" branch: the code stored for a glyph,
\* -1 for a character the chain falls through on (return 0).
MirrorCode(ch) ==
    IF ch = CH_SLASH THEN MIRROR_FORWARD
    ELSE IF ch = CH_BACKSLASH THEN MIRROR_BACKWARD
    ELSE IF ch = CH_DASH THEN MIRROR_STRAIGHT
    ELSE IF ch = CH_SPACE THEN MIRROR_NONE
    ELSE -1

\* mirrorfield_set whose perimeter test is t <= GRID_SIZE * 4.
mirrorfield_set_OffByOne(E, ch) ==
    LET i  == E.set_i + 1
        E1 == [E EXCEPT !.set_i = i]
    IN  IF i < GRID_SIZE * GRID_SIZE
        THEN LET t == ((i \div GRID_SIZE) * GRID_SIZE) + (i % GRID_SIZE)
             IN  IF MirrorCode(ch) >= 0
                 THEN [eng |-> [E1 EXCEPT !.grid[t] = MirrorCode(ch)], ret |-> 1]
                 ELSE [eng |-> E1, ret |-> 0]
        ELSE LET t == i - (GRID_SIZE * GRID_SIZE)
             IN  IF t <= GRID_SIZE * 4
                 THEN [eng |-> [E1 EXCEPT !.perimeterChars[t] = ch], ret |-> 1]
                 ELSE [eng |-> E1, ret |-> 0]

\* One key byte.  Result: the new static state and the return value.
mirrorfield_set(E, ch) ==
    LET i  == E.set_i + 1
        E1 == [E EXCEPT !.set_i = i]
    IN  IF i < GRID_SIZE * GRID_SIZE
        THEN LET t == ((i \div GRID_SIZE) * GRID_SIZE) + (i % GRID_SIZE)
             IN  IF MirrorCode(ch) >= 0
                 THEN [eng |-> [E1 EXCEPT !.grid[t] = MirrorCode(ch)], ret |-> 1]
                 ELSE [eng |-> E1, ret |-> 0]
        ELSE LET t == i - (GRID_SIZE * GRID_SIZE)
             IN  IF t < GRID_SIZE * 4
                 THEN [eng |-> [E1 EXCEPT !.perimeterChars[t] = ch], ret |-> 1]
                 ELSE [eng |-> E1, ret |-> 0]

\* First loop of mirrorfield_validate: 1 when no cell from i on is out of range.
RECURSIVE CheckMirrors(_, _)
CheckMirrors(E, i) ==
    IF i < GRID_SIZE * GRID_SIZE
    THEN IF E.grid[i] < 0 \/ E.grid[i] > 3 THEN 0 ELSE CheckMirrors(E, i + 1)
    ELSE 1

\* CheckDuplicates whose inner loop stops one slot early (i2 < GRID_SIZE * 4 - 1).
RECURSIVE CheckDuplicates_ShortInner(_, _, _)
CheckDuplicates_ShortInner(E, i, i2) ==
    IF i < GRID_SIZE * 4
    THEN IF i2 < GRID_SIZE * 4 - 1
         THEN IF E.perimeterChars[i] = E.perimeterChars[i2]
              THEN 0
              ELSE CheckDuplicates_ShortInner(E, i, i2 + 1)
         ELSE CheckDuplicates_ShortInner(E, i + 1, i + 2)
    ELSE 1

\* Second (nested) loop: 1 when no pair (i, i2), i < i2, from here on is equal.
RECURSIVE CheckDuplicates(_, _, _)
CheckDuplicates(E, i, i2) ==
    IF i < GRID_SIZE * 4
    THEN IF i2 < GRID_SIZE * 4
         THEN IF E.perimeterChars[i] = E.perimeterChars[i2]
              THEN 0
              ELSE CheckDuplicates(E, i, i2 + 1)
         ELSE CheckDuplicates(E, i + 1, i + 2)
    ELSE 1

mirrorfield_validate(E) ==
    IF CheckMirrors(E, 0) = 0 THEN 0 ELSE CheckDuplicates(E, 0, 1)

(***************************************************************************)
(* mirrorfield_crypt_char                                                  *)
(***************************************************************************)
\* The scan for the input: the first slot from startCharPos on that holds ch,
\* GRID_SIZE * 4 when none does.
RECURSIVE FindStartCharPos(_, _, _)
FindStartCharPos(E, ch, startCharPos) ==
    IF startCharPos < GRID_SIZE * 4
    THEN IF E.perimeterChars[startCharPos] = ch
         THEN startCharPos
         ELSE FindStartCharPos(E, ch, startCharPos + 1)
    ELSE startCharPos

\* Starting row/col and direction of a slot in [0, GRID_SIZE * 4).
EntryState(startCharPos) ==
    IF startCharPos < GRID_SIZE
    THEN [direction |-> DIR_DOWN, r |-> 0, c |-> startCharPos]
    ELSE IF startCharPos < GRID_SIZE * 2
    THEN [direction |-> DIR_LEFT, r |-> startCharPos - GRID_SIZE, c |-> GRID_SIZE - 1]
    ELSE IF startCharPos < GRID_SIZE * 3
    THEN [direction |-> DIR_RIGHT, r |-> startCharPos - (GRID_SIZE * 2), c |-> 0]
    ELSE [direction |-> DIR_UP, r |-> GRID_SIZE - 1, c |-> startCharPos - (GRID_SIZE * 3)]

\* Reflect whose MIRROR_FORWARD switch has no DIR_UP case.
Reflect_ForwardUpMissing(code, direction) ==
    IF code = MIRROR_FORWARD
    THEN CASE direction = DIR_DOWN  -> DIR_LEFT
           [] direction = DIR_LEFT  -> DIR_DOWN
           [] direction = DIR_RIGHT -> DIR_UP
           [] OTHER                 -> direction
    ELSE IF code = MIRROR_BACKWARD
    THEN CASE direction = DIR_DOWN  -> DIR_RIGHT
           [] direction = DIR_LEFT  -> DIR_UP
           [] direction = DIR_RIGHT -> DIR_DOWN
           [] direction = DIR_UP    -> DIR_LEFT
           [] OTHER                 -> direction
    ELSE direction

\* The two direction switches.
Reflect(code, direction) ==
    IF code = MIRROR_FORWARD
    THEN CASE direction = DIR_DOWN  -> DIR_LEFT
           [] direction = DIR_LEFT  -> DIR_DOWN
           [] direction = DIR_RIGHT -> DIR_UP
           [] direction = DIR_UP    -> DIR_RIGHT
           [] OTHER                 -> direction
    ELSE IF code = MIRROR_BACKWARD
    THEN CASE direction = DIR_DOWN  -> DIR_RIGHT
           [] direction = DIR_LEFT  -> DIR_UP
           [] direction = DIR_RIGHT -> DIR_DOWN
           [] direction = DIR_UP    -> DIR_LEFT
           [] OTHER                 -> direction
    ELSE direction

\* Advance whose DIR_DOWN exit is numbered from GRID_SIZE * 2.
Advance_DownExitShifted(r, c, direction) ==
    CASE direction = DIR_DOWN ->
            [r |-> r + 1, c |-> c,
             endCharPos |-> IF r + 1 = GRID_SIZE THEN c + (GRID_SIZE * 2) ELSE -1]
      [] direction = DIR_LEFT ->
            [r |-> r, c |-> c - 1,
             endCharPos |-> IF c - 1 = -1 THEN r + (GRID_SIZE * 2) ELSE -1]
      [] direction = DIR_RIGHT ->
            [r |-> r, c |-> c + 1,
             endCharPos |-> IF c + 1 = GRID_SIZE THEN r + GRID_SIZE ELSE -1]
      [] direction = DIR_UP ->
            [r |-> r - 1, c |-> c,
             endCharPos |-> IF r - 1 = -1 THEN c ELSE -1]
      [] OTHER -> [r |-> r, c |-> c, endCharPos |-> -1]

\* The advance switch: the next position and, once out of the grid, the
\* end character position (-1 while inside).
Advance(r, c, direction) ==
    CASE direction = DIR_DOWN ->
            [r |-> r + 1, c |-> c,
             endCharPos |-> IF r + 1 = GRID_SIZE THEN c + (GRID_SIZE * 3) ELSE -1]
      [] direction = DIR_LEFT ->
            [r |-> r, c |-> c - 1,
             endCharPos |-> IF c - 1 = -1 THEN r + (GRID_SIZE * 2) ELSE -1]
      [] direction = DIR_RIGHT ->
            [r |-> r, c |-> c + 1,
             endCharPos |-> IF c + 1 = GRID_SIZE THEN r + GRID_SIZE ELSE -1]
      [] direction = DIR_UP ->
            [r |-> r - 1, c |-> c,
             endCharPos |-> IF r - 1 = -1 THEN c ELSE -1]
      [] OTHER -> [r |-> r, c |-> c, endCharPos |-> -1]

\* Iterations after which the loop has repeated a (cell, direction) pair.
RayFuel == 4 * NCELLS

\* The record of one loop iteration on cell t: the direction the ray came
\* with and the one it leaves with, the code the cell held at the top of the
\* iteration, and whether the un-spin was applied (visited[t] set).
Crossing(t, R, dir) ==
    [t |-> t, entered |-> R.direction, left |-> dir,
     held |-> R.grid[t], unspun |-> t \in R.visited]

\* TraverseStep that spins whatever the cell holds, empty cells included.
TraverseStep_SpinAll(R) ==
    LET t   == (R.r * GRID_SIZE) + R.c
        g0  == IF t \in R.visited
               THEN [R.grid EXCEPT ![t] = (R.grid[t] + 2) % 3]
               ELSE R.grid
        dir == Reflect(g0[t], R.direction)
        adv == Advance(R.r, R.c, dir)
    IN  [grid |-> [g0 EXCEPT ![t] = (g0[t] + 1) % 3],
         visited |-> R.visited \cup {t}, r |-> adv.r, c |-> adv.c,
         direction |-> dir, endCharPos |-> adv.endCharPos,
         steps |-> R.steps + 1,
         crossings |-> [R.crossings EXCEPT ![t] = R.crossings[t] + 1],
         path |-> Append(R.path, Crossing(t, R, dir))]

\* TraverseStep that marks every cell it crosses as visited, empty or not.
TraverseStep_MarkAll(R) ==
    LET t   == (R.r * GRID_SIZE) + R.c
        g0  == IF t \in R.visited
               THEN [R.grid EXCEPT ![t] = (R.grid[t] + 2) % 3]
               ELSE R.grid
        dir == Reflect(g0[t], R.direction)
        sp  == g0[t] # MIRROR_NONE
        g1  == IF sp THEN [g0 EXCEPT ![t] = (g0[t] + 1) % 3] ELSE g0
        adv == Advance(R.r, R.c, dir)
    IN  [grid |-> g1, visited |-> R.visited \cup {t}, r |-> adv.r, c |-> adv.c,
         direction |-> dir, endCharPos |-> adv.endCharPos,
         steps |-> R.steps + 1,
         crossings |-> [R.crossings EXCEPT ![t] = R.crossings[t] + 1],
         path |-> Append(R.path, Crossing(t, R, dir))]

\* TraverseStep without the un-spin of a cell already visited.
TraverseStep_NoUnspin(R) ==
    LET t   == (R.r * GRID_SIZE) + R.c
        g0  == R.grid
        dir == Reflect(g0[t], R.direction)
        sp  == g0[t] # MIRROR_NONE
        g1  == IF sp THEN [g0 EXCEPT ![t] = (g0[t] + 1) % 3] ELSE g0
        v1  == IF sp THEN R.visited \cup {t} ELSE R.visited
        adv == Advance(R.r, R.c, dir)
    IN  [grid |-> g1, visited |-> v1, r |-> adv.r, c |-> adv.c,
         direction |-> dir, endCharPos |-> adv.endCharPos,
         steps |-> R.steps + 1,
         crossings |-> [R.crossings EXCEPT ![t] = R.crossings[t] + 1],
         path |-> Append(R.path, Crossing(t, R, dir))]

\* One iteration of the traversal loop on the ray state
\* [grid, visited, r, c, direction, endCharPos]; steps counts the iterations,
\* crossings[t] the iterations spent on cell t, path records them in order.
TraverseStep(R) ==
    LET t   == (R.r * GRID_SIZE) + R.c
        g0  == IF t \in R.visited
               THEN [R.grid EXCEPT ![t] = (R.grid[t] + 2) % 3]
               ELSE R.grid
        dir == Reflect(g0[t], R.direction)
        sp  == g0[t] # MIRROR_NONE
        g1  == IF sp THEN [g0 EXCEPT ![t] = (g0[t] + 1) % 3] ELSE g0
        v1  == IF sp THEN R.visited \cup {t} ELSE R.visited
        adv == Advance(R.r, R.c, dir)
    IN  [grid |-> g1, visited |-> v1, r |-> adv.r, c |-> adv.c,
         direction |-> dir, endCharPos |-> adv.endCharPos,
         steps |-> R.steps + 1,
         crossings |-> [R.crossings EXCEPT ![t] = R.crossings[t] + 1],
         path |-> Append(R.path, Crossing(t, R, dir))]

\* while (endCharPos < 0): the loop, cut off after RayFuel iterations
\* (endCharPos stays -1 then: the call would not return).
RECURSIVE Traverse(_)
Traverse(R) ==
    IF R.endCharPos < 0 /\ R.steps < RayFuel
    THEN Traverse(TraverseStep(R))
    ELSE R

\* The ray of a character entering at startCharPos.
Ray(grid0, startCharPos) ==
    LET en == EntryState(startCharPos)
    IN  Traverse([grid |-> grid0, visited |-> {}, r |-> en.r, c |-> en.c,
                  direction |-> en.direction, endCharPos |-> -1, steps |-> 0,
                  crossings |-> [t \in Cells |-> 0], path |-> <<>>])

(***************************************************************************)
(* mirrorfield_roll_chars                                                  *)
(***************************************************************************)
\* Determine start and end roll chars: the unadjusted roll position of pos.
RollCharPos(E, pos) ==
    IF pos = 0
    THEN (pos + E.perimeterChars[pos] + E.perimeterChars[pos + 1]) % (GRID_SIZE * 4)
    ELSE (pos + E.perimeterChars[pos] + E.perimeterChars[pos - 1]) % (GRID_SIZE * 4)

\* CollisionSteps adding GRID_SIZE instead of GRID_SIZE/2.
RECURSIVE CollisionSteps_WholeStep(_, _, _, _, _, _)
CollisionSteps_WholeStep(rollPos, own, other, lastOwn, lastOther, n) ==
    IF n < GRID_SIZE * 4
          /\ (rollPos = own \/ rollPos = other
                \/ rollPos = lastOwn \/ rollPos = lastOther)
    THEN CollisionSteps_WholeStep((rollPos + GRID_SIZE) % (GRID_SIZE * 4),
                                  own, other, lastOwn, lastOther, n + 1)
    ELSE n

\* The number of additions of GRID_SIZE/2 the collision loop makes from
\* rollPos, counted from n; GRID_SIZE * 4 when it has not stopped by then (the
\* positions repeat from there on).
RECURSIVE CollisionSteps(_, _, _, _, _, _)
CollisionSteps(rollPos, own, other, lastOwn, lastOther, n) ==
    IF n < GRID_SIZE * 4
          /\ (rollPos = own \/ rollPos = other
                \/ rollPos = lastOwn \/ rollPos = lastOther)
    THEN CollisionSteps((rollPos + (GRID_SIZE \div 2)) % (GRID_SIZE * 4),
                        own, other, lastOwn, lastOther, n + 1)
    ELSE n

\* AvoidCollision that does not look at the previous positions.
RECURSIVE AvoidCollision_IgnoreLast(_, _, _, _, _)
AvoidCollision_IgnoreLast(rollPos, own, other, lastOwn, lastOther) ==
    IF rollPos = own \/ rollPos = other
    THEN AvoidCollision_IgnoreLast((rollPos + (GRID_SIZE \div 2)) % (GRID_SIZE * 4),
                                   own, other, lastOwn, lastOther)
    ELSE rollPos

\* AvoidCollision that does not look at the other character's position.
RECURSIVE AvoidCollision_IgnoreOther(_, _, _, _, _)
AvoidCollision_IgnoreOther(rollPos, own, other, lastOwn, lastOther) ==
    IF rollPos = own \/ rollPos = lastOwn \/ rollPos = lastOther
    THEN AvoidCollision_IgnoreOther((rollPos + (GRID_SIZE \div 2)) % (GRID_SIZE * 4),
                                    own, other, lastOwn, lastOther)
    ELSE rollPos

\* The collision loop: step by GRID_SIZE/2 while on own, other or previous position.
RECURSIVE AvoidCollision(_, _, _, _, _)
AvoidCollision(rollPos, own, other, lastOwn, lastOther) ==
    IF rollPos = own \/ rollPos = other \/ rollPos = lastOwn \/ rollPos = lastOther
    THEN AvoidCollision((rollPos + (GRID_SIZE \div 2)) % (GRID_SIZE * 4),
                        own, other, lastOwn, lastOther)
    ELSE rollPos

\* SwapChars without the temporary: p[a] = p[b]; p[b] = p[a].
SwapChars_NoTemp(p, a, b) ==
    [p EXCEPT ![a] = p[b]]

\* tempChar = p[a]; p[a] = p[b]; p[b] = tempChar.
SwapChars(p, a, b) ==
    LET tempChar == p[a]
        p1 == [p EXCEPT ![a] = p[b]]
    IN  [p1 EXCEPT ![b] = tempChar]

\* RollOrder that always rolls the start char first.
RollOrder_StartFirst(p, startCharPos, endCharPos, startRollCharPos, endRollCharPos) ==
    [t \in DOMAIN p |->
        LET p1 == [p EXCEPT ![startCharPos] = p[startRollCharPos],
                            ![startRollCharPos] = p[startCharPos]]
        IN  IF t = endCharPos THEN p1[endRollCharPos]
            ELSE IF t = endRollCharPos THEN p1[endCharPos]
            ELSE p1[t]]

\* Roll the larger of the start/end chars first.
RollOrder(p, startCharPos, endCharPos, startRollCharPos, endRollCharPos) ==
    IF p[startCharPos] > p[endCharPos]
    THEN SwapChars(SwapChars(p, startCharPos, startRollCharPos),
                   endCharPos, endRollCharPos)
    ELSE SwapChars(SwapChars(p, endCharPos, endRollCharPos),
                   startCharPos, startRollCharPos)

StartRollCharPos(E, startCharPos, endCharPos) ==
    AvoidCollision(RollCharPos(E, startCharPos), startCharPos, endCharPos,
                   E.lastStartCharPos, E.lastEndCharPos)

EndRollCharPos(E, startCharPos, endCharPos) ==
    AvoidCollision(RollCharPos(E, endCharPos), endCharPos, startCharPos,
                   E.lastEndCharPos, E.lastStartCharPos)

mirrorfield_roll_chars(E, startCharPos, endCharPos) ==
    LET startRollCharPos == StartRollCharPos(E, startCharPos, endCharPos)
        endRollCharPos   == EndRollCharPos(E, startCharPos, endCharPos)
    IN  [E EXCEPT !.perimeterChars =
                      RollOrder(E.perimeterChars, startCharPos, endCharPos,
                                startRollCharPos, endRollCharPos),
                  !.lastStartCharPos = startCharPos,
                  !.lastEndCharPos = endCharPos]

\* CryptedChar whose test looks at the start slot only.
CryptedChar_StartOnly(E, startCharPos, endCharPos) ==
    IF E.perimeterChars[startCharPos] = startCharPos /\ E.evenodd # 0
    THEN E.perimeterChars[startCharPos]
    ELSE E.perimeterChars[endCharPos]

\* CryptedChar without the evenodd test.
CryptedChar_IgnoreParity(E, startCharPos, endCharPos) ==
    IF E.perimeterChars[startCharPos] = startCharPos
          \/ E.perimeterChars[endCharPos] = endCharPos
    THEN E.perimeterChars[startCharPos]
    ELSE E.perimeterChars[endCharPos]

\* The cyphertext character: the end character, or the start character under
\* the parity rule.  E is the state before the roll, evenodd already toggled.
CryptedChar(E, startCharPos, endCharPos) ==
    IF (E.perimeterChars[startCharPos] = startCharPos
            \/ E.perimeterChars[endCharPos] = endCharPos)
       /\ E.evenodd # 0
    THEN E.perimeterChars[startCharPos]
    ELSE E.perimeterChars[endCharPos]

\* The whole call for an input found on the perimeter (startCharPos <
\* GRID_SIZE * 4) whose ray leaves the grid.  Result: the new static state,
\* the returned character and the positions the call worked with.
mirrorfield_crypt_char(E, ch) ==
    LET E1  == [E EXCEPT !.evenodd = (E.evenodd + 1) % 2]
        startCharPos == FindStartCharPos(E1, ch, 0)
        ray == Ray(E1.grid, startCharPos)
        endCharPos == ray.endCharPos
        E2  == [E1 EXCEPT !.grid = ray.grid]
        ech == CryptedChar(E2, startCharPos, endCharPos)
    IN  [eng |-> mirrorfield_roll_chars(E2, startCharPos, endCharPos),
         ret |-> ech,
         startCharPos |-> startCharPos,
         endCharPos |-> endCharPos,
         startRollCharPos |-> StartRollCharPos(E2, startCharPos, endCharPos),
         endRollCharPos |-> EndRollCharPos(E2, startCharPos, endCharPos),
         startRollFirst |-> RollCharPos(E2, startCharPos),
         endRollFirst |-> RollCharPos(E2, endCharPos),
         prevStartCharPos |-> E.lastStartCharPos,
         prevEndCharPos |-> E.lastEndCharPos,
         steps |-> ray.steps,
         crossings |-> ray.crossings,
         path |-> ray.path]


(***************************************************************************)
(* Bounds of the model and the inputs the callers draw from.               *)
(***************************************************************************)
\* mirrorfield_set calls explored past the end of the key.
MaxOverflow == 2
\* mirrorfield_crypt_char calls explored on the engine being loaded.
MaxLoaderCrypt == 1
\* Message length explored on a loaded engine.
MaxMessage == 2

\* A byte that is no mirror glyph.
CH_OTHER == 120

\* The bytes a caller may feed to set call number k (k = 0, 1, ...): every
\* glyph and a non-glyph for the first two cells, one glyph for each other
\* cell; for the perimeter the slot index plus one, with a zero byte, a
\* repeated byte, a glyph and the largest byte among the alternatives.
SetInputs(k) ==
    IF k < 2 THEN {CH_SLASH, CH_BACKSLASH, CH_DASH, CH_SPACE, CH_OTHER}
    ELSE IF k < NCELLS
    THEN {IF k % 3 = 0 THEN CH_SLASH ELSE IF k % 3 = 1 THEN CH_BACKSLASH ELSE CH_DASH}
    ELSE IF k = NCELLS THEN {1, 0}
    ELSE IF k = NCELLS + 1 THEN {2, 1}
    ELSE IF k = NCELLS + NPERIM - 1 THEN {NPERIM, 255, CH_SLASH}
    ELSE {(k - NCELLS) + 1}

\* The bytes a caller may feed to crypt while the engine is being loaded:
\* two that occur on perimeters of SetInputs and one that never does.
LoaderMessage == {0, 1, 200}

(***************************************************************************)
(* State: the static variables of the process under test, a second         *)
(* process (peer) holding its own copy of them, the last call with what it *)
(* returned, and the history the properties speak about: setCalls counts   *)
(* the set calls since the last init, nInit the init calls of the process. *)
(* shuffle is the frame of a keyfile_shuffle_string call of the key        *)
(* generator (keyfile.c).                                                  *)
(***************************************************************************)
VARIABLES grid, perimeterChars, set_i, evenodd, lastStartCharPos, lastEndCharPos,
          peer, call, setCalls, setFailed, ready, nCrypt, loadGrid, loadPerim,
          halted, nInit, shuffle

vars == <<grid, perimeterChars, set_i, evenodd, lastStartCharPos, lastEndCharPos,
          peer, call, setCalls, setFailed, ready, nCrypt, loadGrid, loadPerim,
          halted, nInit, shuffle>>

engineVars == <<grid, perimeterChars, set_i, evenodd, lastStartCharPos, lastEndCharPos>>

\* The static state of the process under test as a record.
Self ==
    [ grid             |-> grid,
      perimeterChars   |-> perimeterChars,
      set_i            |-> set_i,
      evenodd          |-> evenodd,
      lastStartCharPos |-> lastStartCharPos,
      lastEndCharPos   |-> lastEndCharPos ]

Install(E) ==
    /\ grid' = E.grid
    /\ perimeterChars' = E.perimeterChars
    /\ set_i' = E.set_i
    /\ evenodd' = E.evenodd
    /\ lastStartCharPos' = E.lastStartCharPos
    /\ lastEndCharPos' = E.lastEndCharPos

\* The last call: its operation, argument and return value (status
\* "returned"; "noreturn" for a call that never returns), for a crypt call the
\* positions it worked with (the roll positions before and after the
\* collision loops, lastStartCharPos / lastEndCharPos as the call found
\* them), the iterations of its traversal loop, and what the second process
\* returned.
CallRecord(op, arg, ret, status) ==
    [op |-> op, arg |-> arg, ret |-> ret, status |-> status,
     startCharPos |-> -1, endCharPos |-> -1,
     startRollCharPos |-> -1, endRollCharPos |-> -1,
     startRollFirst |-> -1, endRollFirst |-> -1,
     prevStartCharPos |-> -1, prevEndCharPos |-> -1,
     crossings |-> [t \in Cells |-> 0], path |-> <<>>, peerRet |-> -1]

CryptRecord(ch, res, peerRet) ==
    [op |-> "crypt", arg |-> ch, ret |-> res.ret, status |-> "returned",
     startCharPos |-> res.startCharPos, endCharPos |-> res.endCharPos,
     startRollCharPos |-> res.startRollCharPos,
     endRollCharPos |-> res.endRollCharPos,
     startRollFirst |-> res.startRollFirst, endRollFirst |-> res.endRollFirst,
     prevStartCharPos |-> res.prevStartCharPos,
     prevEndCharPos |-> res.prevEndCharPos,
     crossings |-> res.crossings, path |-> res.path, peerRet |-> peerRet]

\* No keyfile_shuffle_string call in progress.
NoShuffle ==
    [pc |-> "idle", str |-> <<>>, orig |-> <<>>, p |-> 0, i |-> 0,
     sIndex |-> 0, rIndex |-> 0, c1 |-> 0, c2 |-> 0]

\* Process start followed by mirrorfield_init().
ProcessStart ==
    /\ LET E == mirrorfield_init(StaticInit)
       IN  /\ grid = E.grid
           /\ perimeterChars = E.perimeterChars
           /\ set_i = E.set_i
           /\ evenodd = E.evenodd
           /\ lastStartCharPos = E.lastStartCharPos
           /\ lastEndCharPos = E.lastEndCharPos
           /\ peer = E
           /\ loadGrid = E.grid
           /\ loadPerim = E.perimeterChars
    /\ call = CallRecord("init", -1, -1, "returned")
    /\ setCalls = 0
    /\ setFailed = FALSE
    /\ ready = FALSE
    /\ nCrypt = 0
    /\ halted = FALSE
    /\ nInit = 1

Init ==
    /\ ProcessStart
    /\ shuffle = NoShuffle

\* mirrorfield_set(ch)
Set(ch) ==
    /\ ~halted
    /\ setCalls < NCELLS + NPERIM + MaxOverflow
    /\ LET res == mirrorfield_set(Self, ch)
       IN  /\ Install(res.eng)
           /\ call' = CallRecord("set", ch, res.ret, "returned")
           /\ setFailed' = (setFailed \/ res.ret = 0)
    /\ setCalls' = setCalls + 1
    /\ UNCHANGED <<peer, ready, nCrypt, loadGrid, loadPerim, halted, nInit, shuffle>>

\* mirrorfield_validate()
Validate ==
    /\ ~halted
    /\ LET ret == mirrorfield_validate(Self)
       IN  /\ call' = CallRecord("validate", -1, ret, "returned")
           /\ ready' = (ready \/ ret = 1)
           /\ loadGrid' = IF ret = 1 THEN grid ELSE loadGrid
           /\ loadPerim' = IF ret = 1 THEN perimeterChars ELSE loadPerim
    /\ UNCHANGED <<engineVars, peer, setCalls, setFailed, nCrypt, halted, nInit, shuffle>>

\* What one crypt call that returns does to the process under test.
CryptReturns(res, ch) ==
    /\ Install(res.eng)
    /\ call' = CryptRecord(ch, res, -1)
    /\ nCrypt' = nCrypt + 1

\* mirrorfield_crypt_char(ch) with ch on the perimeter.
CryptChar(ch) ==
    /\ ~halted
    /\ nCrypt < MaxLoaderCrypt
    /\ FindStartCharPos(Self, ch, 0) < GRID_SIZE * 4
    /\ CryptReturns(mirrorfield_crypt_char(Self, ch), ch)
    /\ UNCHANGED <<peer, setCalls, setFailed, ready, loadGrid, loadPerim, halted,
                   nInit, shuffle>>

\* mirrorfield_crypt_char(ch) with ch not on the perimeter: startCharPos is
\* GRID_SIZE * 4, no branch sets r and c, direction stays 0.  evenodd has been
\* toggled; the loop reads grid[t] at an indeterminate t and, direction
\* matching no case, never sets endCharPos: the call does not return.  A t
\* inside the grid has its mirror spun and unspun in turn; any other t is
\* outside the module's state.
CryptUnknown(ch) ==
    /\ ~halted
    /\ nCrypt < MaxLoaderCrypt
    /\ FindStartCharPos(Self, ch, 0) = GRID_SIZE * 4
    /\ evenodd' = (evenodd + 1) % 2
    /\ \E t \in Cells \cup {-1} :
          grid' = IF t \in Cells /\ grid[t] # MIRROR_NONE
                  THEN [grid EXCEPT ![t] = (grid[t] + 1) % 3]
                  ELSE grid
    /\ call' = CallRecord("crypt", ch, -1, "noreturn")
    /\ nCrypt' = nCrypt + 1
    /\ halted' = TRUE
    /\ UNCHANGED <<perimeterChars, set_i, lastStartCharPos, lastEndCharPos,
                   peer, setCalls, setFailed, ready, loadGrid, loadPerim, nInit, shuffle>>

Next ==
    \/ \E ch \in SetInputs(setCalls) : Set(ch)
    \/ Validate
    \/ \E ch \in LoaderMessage : CryptChar(ch)
    \/ \E ch \in LoaderMessage : CryptUnknown(ch)

Spec == Init /\ [][Next]_vars


(***************************************************************************)
(* The cipher on a loaded and validated key: two processes loaded from the *)
(* same key; the first is fed a message, the second what the first         *)
(* returns.                                                                *)
(***************************************************************************)
Glyphs == {CH_SLASH, CH_BACKSLASH, CH_DASH, CH_SPACE}

\* Perimeters of the explored keys: every byte its own slot index; the slot
\* indices shifted by one; letters; small and large bytes interleaved; slot 0
\* alone holding its own index.
PerimIdentity == [t \in Slots |-> t]
PerimShifted == [t \in Slots |-> t + 1]
PerimLetters == [t \in Slots |-> 65 + t]
PerimMixed == [t \in Slots |-> IF t % 2 = 0 THEN (t + 2) % NPERIM ELSE 255 - t]

PerimOneFixed == [t \in Slots |-> IF t = 0 THEN 0 ELSE 100 + t]

Perimeters ==
    {PerimIdentity, PerimShifted, PerimLetters, PerimMixed, PerimOneFixed}

\* Grids of the explored keys: no mirror, one kind of mirror, the four glyphs
\* in turn.
SampleGrids ==
    { [t \in Cells |-> CH_SPACE],
      [t \in Cells |-> CH_SLASH],
      [t \in Cells |-> CH_DASH],
      [t \in Cells |-> IF t % 4 = 0 THEN CH_BACKSLASH
                        ELSE IF t % 4 = 1 THEN CH_SLASH
                        ELSE IF t % 4 = 2 THEN CH_SPACE ELSE CH_DASH] }

\* The explored keys: every grid under two perimeters, and the sample grids
\* under every perimeter.
Keys ==
    ([Cells -> Glyphs] \X {PerimMixed, PerimIdentity})
        \cup (SampleGrids \X Perimeters)

\* The serialised key: the grid glyphs row-major, then the perimeter.
KeyStream(g, p) ==
    [k \in 0 .. (NCELLS + NPERIM - 1) |-> IF k < NCELLS THEN g[k] ELSE p[k - NCELLS]]

\* The caller's loading loop: mirrorfield_set on each byte of K from k on.
RECURSIVE LoadKey(_, _, _)
LoadKey(E, K, k) ==
    IF k < NCELLS + NPERIM
    THEN LoadKey(mirrorfield_set(E, K[k]).eng, K, k + 1)
    ELSE E

InitCipher ==
    \E key \in Keys :
        LET E == LoadKey(mirrorfield_init(StaticInit), KeyStream(key[1], key[2]), 0)
        IN  /\ mirrorfield_validate(E) = 1
            /\ grid = E.grid
            /\ perimeterChars = E.perimeterChars
            /\ set_i = E.set_i
            /\ evenodd = E.evenodd
            /\ lastStartCharPos = E.lastStartCharPos
            /\ lastEndCharPos = E.lastEndCharPos
            /\ peer = E
            /\ loadGrid = E.grid
            /\ loadPerim = E.perimeterChars
            /\ call = CallRecord("validate", -1, 1, "returned")
            /\ setCalls = NCELLS + NPERIM
            /\ setFailed = FALSE
            /\ ready = TRUE
            /\ nCrypt = 0
            /\ halted = FALSE
            /\ nInit = 1
            /\ shuffle = NoShuffle

\* crypt(ch) on the first process, then crypt of the returned byte on the second.
CryptStream(ch) ==
    /\ ~halted
    /\ nCrypt < MaxMessage
    /\ FindStartCharPos(Self, ch, 0) < GRID_SIZE * 4
    /\ LET res == mirrorfield_crypt_char(Self, ch)
           known == FindStartCharPos(peer, res.ret, 0) < GRID_SIZE * 4
           back == mirrorfield_crypt_char(peer, res.ret)
       IN  /\ Install(res.eng)
           /\ peer' = IF known THEN back.eng ELSE peer
           /\ call' = CryptRecord(ch, res, IF known THEN back.ret ELSE -1)
    /\ nCrypt' = nCrypt + 1
    /\ UNCHANGED <<setCalls, setFailed, ready, loadGrid, loadPerim, halted, nInit, shuffle>>

NextCipher == \E ch \in {perimeterChars[t] : t \in Slots} : CryptStream(ch)

SpecCipher == InitCipher /\ [][NextCipher]_vars


(***************************************************************************)
(* Properties of the cipher on a validated key (SpecCipher).               *)
(***************************************************************************)
\* C1: round trip. Whenever the first process has crypted a message
\* character and the second process has crypted what the first returned, the
\* second returns the message character, and both processes hold the same
\* grid and the same perimeter.
C1_RoundTrip ==
    (call.op = "crypt") =>
        /\ call.peerRet = call.arg
        /\ peer.grid = grid
        /\ peer.perimeterChars = perimeterChars

\* A second character has gone through both processes, was returned changed
\* by the first and restored by the second.
C1_Witness ==
    /\ call.op = "crypt"
    /\ nCrypt >= 2
    /\ call.ret # call.arg
    /\ call.peerRet = call.arg

\* C2: on a validated key, after any crypt calls on characters of the
\* perimeter, every byte that was on the perimeter at load occupies exactly
\* one slot.
C2_PerimeterPermutation ==
    ready =>
        \A b \in {loadPerim[t] : t \in Slots} :
            Cardinality({s \in Slots : perimeterChars[s] = b}) = 1

\* A roll whose two destinations coincided has changed the perimeter.
C2_Witness ==
    /\ call.op = "crypt"
    /\ call.startRollCharPos = call.endRollCharPos
    /\ perimeterChars # loadPerim

\* C3: on a validated key, after any crypt calls, every cell holds a code in
\* 0..3, the cells empty at load are empty and the cells holding a mirror at
\* load hold a mirror.
C3_GridCodes ==
    ready =>
        \A t \in Cells :
            /\ grid[t] \in {0, 1, 2, 3}
            /\ (loadGrid[t] = MIRROR_NONE) <=> (grid[t] = MIRROR_NONE)

\* A ray has crossed an empty cell and a mirror, and the mirror has a new code.
C3_Witness ==
    /\ call.op = "crypt"
    /\ \E t \in Cells : call.crossings[t] > 0 /\ loadGrid[t] = MIRROR_NONE
    /\ \E t \in Cells : call.crossings[t] > 0 /\ grid[t] # loadGrid[t]


\* C10: the k-th crypt call on the loaded key (k = 1, 2, ...) finds its input
\* at slot s, its ray leaves at slot e, and it returns the byte at e as it
\* stood before the roll, unless k is odd and the byte at s equals s or the
\* byte at e equals e: then it returns the byte at s.  evenodd is 1 exactly
\* on the odd calls.
C10_CryptOutput ==
    [][ (call'.op = "crypt" /\ nCrypt' = nCrypt + 1) =>
          LET k == nCrypt'
              s == call'.startCharPos
              e == call'.endCharPos
              fixed == perimeterChars[s] = s \/ perimeterChars[e] = e
          IN  /\ s \in Slots /\ e \in Slots
              /\ perimeterChars[s] = call'.arg
              /\ (evenodd' = 1) <=> (k % 2 = 1)
              /\ call'.ret = IF k % 2 = 1 /\ fixed
                             THEN perimeterChars[s]
                             ELSE perimeterChars[e] ]_vars

\* An odd call has returned its own input: the override fired.
C10_Witness ==
    /\ call.op = "crypt"
    /\ nCrypt % 2 = 1
    /\ evenodd = 1
    /\ call.startCharPos # call.endCharPos
    /\ call.ret = call.arg

(***************************************************************************)
(* Properties of loading and validation (Spec).                            *)
(***************************************************************************)
\* C4 (as claimed): a crypt call on a validated key with a byte that is not
\* on the perimeter signals an error and leaves perimeterChars, grid, evenodd,
\* lastStartCharPos and lastEndCharPos as they were.
C4_UnknownInputRejected ==
    [][ (call'.op = "crypt" /\ nCrypt' = nCrypt + 1 /\ ready
            /\ \A t \in Slots : perimeterChars[t] # call'.arg) =>
          /\ call'.status = "error"
          /\ UNCHANGED <<perimeterChars, grid, evenodd,
                         lastStartCharPos, lastEndCharPos>> ]_vars

\* C5 (as claimed): a crypt call made while validate() has not returned
\* success since init signals an error and leaves grid, perimeterChars,
\* evenodd, lastStartCharPos and lastEndCharPos as they were (stated for a
\* byte that some slot holds, so that the call is not the one C4 is about).
C5_NotReadyRejected ==
    [][ (call'.op = "crypt" /\ nCrypt' = nCrypt + 1 /\ ~ready
            /\ \E t \in Slots : perimeterChars[t] = call'.arg) =>
          /\ call'.status = "error"
          /\ UNCHANGED <<perimeterChars, grid, evenodd,
                         lastStartCharPos, lastEndCharPos>> ]_vars

\* C6 (as claimed): validate() returns success only after exactly
\* GRID_SIZE^2 + 4 * GRID_SIZE set calls since init, all of which returned
\* success.
C6_ReadyOnlyAfterCleanLoad ==
    (call.op = "validate" /\ call.ret = 1) =>
        (setCalls = NCELLS + NPERIM /\ ~setFailed)

\* C7: validate() returns success exactly when every cell holds a code in
\* 0..3 and no two distinct slots hold the same byte, and changes neither
\* grid nor perimeterChars.
C7_ValidateContract ==
    [][ (call'.op = "validate") =>
          /\ (call'.ret = 1) <=>
                /\ \A t \in Cells : grid[t] \in {0, 1, 2, 3}
                /\ \A a, b \in Slots : a # b => perimeterChars[a] # perimeterChars[b]
          /\ call'.ret \in {0, 1}
          /\ UNCHANGED <<grid, perimeterChars>> ]_vars

\* validate() succeeded on a key whose every byte was fed.
C7_Witness ==
    /\ call.op = "validate"
    /\ call.ret = 1
    /\ setCalls = NCELLS + NPERIM

\* C8 (amended): among the first GRID_SIZE^2 set calls, '/' is stored as 0,
\* '-' as 1, '\\' as 2 and ' ' as 3, each with success, and any other
\* character makes set fail.
C8_GlyphCodes ==
    [][ (call'.op = "set" /\ setCalls' = setCalls + 1 /\ setCalls < NCELLS) =>
          LET ch == call'.arg
              t  == setCalls
          IN  /\ ch = CH_SLASH     => (call'.ret = 1 /\ grid'[t] = 0)
              /\ ch = CH_DASH      => (call'.ret = 1 /\ grid'[t] = 1)
              /\ ch = CH_BACKSLASH => (call'.ret = 1 /\ grid'[t] = 2)
              /\ ch = CH_SPACE     => (call'.ret = 1 /\ grid'[t] = 3)
              /\ ch \notin {CH_SLASH, CH_DASH, CH_BACKSLASH, CH_SPACE}
                    => call'.ret = 0 ]_vars

\* C8 (as claimed): '/', '\\', '-', ' ' are stored as 0, 1, 2, 3 in that
\* order, and any other character makes set fail.
C8_GlyphCodesAsClaimed ==
    [][ (call'.op = "set" /\ setCalls' = setCalls + 1 /\ setCalls < NCELLS) =>
          LET ch == call'.arg
              t  == setCalls
          IN  /\ ch = CH_SLASH     => (call'.ret = 1 /\ grid'[t] = 0)
              /\ ch = CH_BACKSLASH => (call'.ret = 1 /\ grid'[t] = 1)
              /\ ch = CH_DASH      => (call'.ret = 1 /\ grid'[t] = 2)
              /\ ch = CH_SPACE     => (call'.ret = 1 /\ grid'[t] = 3)
              /\ ch \notin {CH_SLASH, CH_DASH, CH_BACKSLASH, CH_SPACE}
                    => call'.ret = 0 ]_vars

\* A '\\' has just been stored in the grid, as code 2.
C8_Witness ==
    /\ call.op = "set"
    /\ call.arg = CH_BACKSLASH
    /\ call.ret = 1
    /\ setCalls >= 1 /\ setCalls <= NCELLS
    /\ grid[setCalls - 1] = 2

\* C9: the k-th set call since init (k = 0, 1, ...) writes grid[k] and
\* nothing else when k < GRID_SIZE^2 and the byte is a glyph; copies the byte
\* into perimeterChars[k - GRID_SIZE^2], returns success and changes nothing
\* else when GRID_SIZE^2 <= k < GRID_SIZE^2 + 4 * GRID_SIZE; returns failure
\* and changes neither grid nor perimeterChars from then on.
C9_SetConsumesInOrder ==
    [][ (call'.op = "set" /\ setCalls' = setCalls + 1) =>
          LET ch == call'.arg
              k  == setCalls
          IN  /\ k < NCELLS =>
                    /\ perimeterChars' = perimeterChars
                    /\ \A t \in Cells \ {k} : grid'[t] = grid[t]
                    /\ call'.ret = 1 =>
                          grid'[k] = (CASE ch = CH_SLASH -> 0
                                        [] ch = CH_DASH -> 1
                                        [] ch = CH_BACKSLASH -> 2
                                        [] OTHER -> 3)
                    /\ call'.ret = 0 => grid' = grid
              /\ (NCELLS <= k /\ k < NCELLS + NPERIM) =>
                    /\ call'.ret = 1
                    /\ grid' = grid
                    /\ perimeterChars'[k - NCELLS] = ch
                    /\ \A t \in Slots \ {k - NCELLS} :
                          perimeterChars'[t] = perimeterChars[t]
              /\ k >= NCELLS + NPERIM =>
                    /\ call'.ret = 0
                    /\ grid' = grid
                    /\ perimeterChars' = perimeterChars ]_vars

\* A set call past the end of the key has failed.
C9_Witness ==
    /\ call.op = "set"
    /\ setCalls > NCELLS + NPERIM
    /\ call.ret = 0

(***************************************************************************)
(* The engine under repeated initialisation: mirrorfield_init() may be     *)
(* called again at any point of the life of the process, followed by a new *)
(* load of a well-formed key.                                              *)
(***************************************************************************)
\* mirrorfield_init calls explored in one process.
MaxInit == 2

\* Byte k of the well-formed keys fed after an init: a mirror or an empty
\* first cell, fixed glyphs for the other cells, slot index plus one on the
\* perimeter, a glyph past the end of the key.
ReinitInputs(k) ==
    IF k = 0 THEN {CH_SLASH, CH_SPACE}
    ELSE IF k < NCELLS
    THEN {IF k % 3 = 0 THEN CH_SLASH ELSE IF k % 3 = 1 THEN CH_BACKSLASH ELSE CH_DASH}
    ELSE IF k < NCELLS + NPERIM THEN {(k - NCELLS) + 1}
    ELSE {CH_SPACE}

\* mirrorfield_init(), called again: the two memsets; the history restarts.
MirrorfieldInit ==
    /\ ~halted
    /\ nInit < MaxInit
    /\ Install(mirrorfield_init(Self))
    /\ call' = CallRecord("init", -1, -1, "returned")
    /\ setCalls' = 0
    /\ setFailed' = FALSE
    /\ ready' = FALSE
    /\ nInit' = nInit + 1
    /\ UNCHANGED <<peer, nCrypt, loadGrid, loadPerim, halted, shuffle>>

NextReinit ==
    \/ \E ch \in ReinitInputs(setCalls) : Set(ch)
    \/ Validate
    \/ \E ch \in LoaderMessage : CryptChar(ch)
    \/ MirrorfieldInit

SpecReinit == Init /\ [][NextReinit]_vars

\* C11 (as claimed): init() establishes FRESH whenever it is called: it
\* leaves the load counter at its start value, evenodd at 0 and
\* lastStartCharPos / lastEndCharPos at the sentinel -1; the k-th set call
\* after it, fed byte k of a well-formed key, succeeds and writes cell k or
\* slot k - GRID_SIZE^2; and validate() after the whole key succeeds.
C11_InitEstablishesFresh ==
    [][ /\ (call'.op = "init") =>
              /\ set_i' = -1
              /\ evenodd' = 0
              /\ lastStartCharPos' = -1
              /\ lastEndCharPos' = -1
        /\ (call'.op = "set" /\ setCalls' = setCalls + 1
                /\ setCalls < NCELLS + NPERIM /\ ~setFailed) =>
              /\ call'.ret = 1
              /\ setCalls < NCELLS => grid'[setCalls] = MirrorCode(call'.arg)
              /\ setCalls >= NCELLS =>
                    perimeterChars'[setCalls - NCELLS] = call'.arg
        /\ (call'.op = "validate" /\ setCalls = NCELLS + NPERIM /\ ~setFailed) =>
              call'.ret = 1 ]_vars

(***************************************************************************)
(* Properties of the roll and of the traversal on a validated key          *)
(* (SpecCipher).                                                           *)
(***************************************************************************)
\* The slot that holds byte b on perimeter p.
SlotOf(p, b) == CHOOSE t \in Slots : p[t] = b

\* C12 (as claimed): after the roll of a crypt call, neither the byte that
\* was at the start slot nor the byte that was at the end slot sits at its own
\* former slot, at the other endpoint's slot, or at lastStartCharPos /
\* lastEndCharPos as the roll found them.
C12_RolledAwayAsClaimed ==
    [][ (call'.op = "crypt" /\ nCrypt' = nCrypt + 1) =>
          LET s == call'.startCharPos
              e == call'.endCharPos
              barred == {s, e, lastStartCharPos, lastEndCharPos}
          IN  /\ SlotOf(perimeterChars', perimeterChars[s]) \notin barred
              /\ SlotOf(perimeterChars', perimeterChars[e]) \notin barred ]_vars

\* C12 (amended): both roll positions lie outside {s, e, lastStartCharPos,
\* lastEndCharPos}.  When they differ, the byte of the start slot ends at the
\* start roll position and the byte of the end slot at the end roll position,
\* so neither sits on a barred slot.  When they coincide, the byte rolled last
\* (the end byte if the start byte is the larger, the start byte otherwise)
\* ends at the roll position and the byte rolled first ends at the other
\* endpoint's slot.
C12_RolledAway ==
    [][ (call'.op = "crypt" /\ nCrypt' = nCrypt + 1) =>
          LET s  == call'.startCharPos
              e  == call'.endCharPos
              rs == call'.startRollCharPos
              re == call'.endRollCharPos
              barred == {s, e, lastStartCharPos, lastEndCharPos}
              atS == SlotOf(perimeterChars', perimeterChars[s])
              atE == SlotOf(perimeterChars', perimeterChars[e])
          IN  /\ rs \in Slots \ barred
              /\ re \in Slots \ barred
              /\ rs # re => (atS = rs /\ atE = re)
              /\ (rs = re /\ perimeterChars[s] > perimeterChars[e]) =>
                    (atS = e /\ atE = re)
              /\ (rs = re /\ perimeterChars[s] <= perimeterChars[e]) =>
                    (atE = s /\ atS = rs) ]_vars

\* A second or later call whose start roll position first fell on a previous
\* position and whose end roll position first fell on an endpoint, with
\* distinct roll positions in the end.
C12_Witness ==
    /\ call.op = "crypt"
    /\ call.prevStartCharPos >= 0
    /\ call.startRollFirst \in {call.prevStartCharPos, call.prevEndCharPos}
    /\ call.endRollFirst \in {call.startCharPos, call.endCharPos}
    /\ call.startRollCharPos # call.endRollCharPos
    /\ perimeterChars[call.startRollCharPos] = call.arg

\* C13: in the roll of a crypt call whose roll positions differ after the
\* collision loops, rolling the start byte first and rolling the end byte
\* first give the same perimeter, which is the one the call leaves.
C13_SwapOrderImmaterial ==
    [][ (call'.op = "crypt" /\ nCrypt' = nCrypt + 1
            /\ call'.startRollCharPos # call'.endRollCharPos) =>
          LET s  == call'.startCharPos
              e  == call'.endCharPos
              rs == call'.startRollCharPos
              re == call'.endRollCharPos
              startFirst == SwapChars(SwapChars(perimeterChars, s, rs), e, re)
              endFirst   == SwapChars(SwapChars(perimeterChars, e, re), s, rs)
          IN  /\ startFirst = endFirst
              /\ perimeterChars' = startFirst ]_vars

\* A second or later call has rolled to distinct positions, its start byte
\* being the larger one (the branch that rolls the start byte first).
C13_Witness ==
    /\ call.op = "crypt"
    /\ nCrypt >= 2
    /\ call.startRollCharPos # call.endRollCharPos
    /\ perimeterChars[call.startRollCharPos] = call.arg
    /\ call.arg > perimeterChars[call.endRollCharPos]

\* C14: net grid effect of one crypt call.  Every mirror cell on the path of
\* the ray ends the call one spin step ahead of its code before the call,
\* however often the ray crossed it; every other cell is unchanged; and at
\* each crossing the ray leaves in the direction the cell's code from before
\* the call reflects it to.
C14_NetGridEffect ==
    [][ (call'.op = "crypt" /\ nCrypt' = nCrypt + 1) =>
          LET path == call'.path
              crossed == {path[n].t : n \in DOMAIN path}
          IN  /\ \A t \in Cells :
                    grid'[t] = IF t \in crossed /\ grid[t] # MIRROR_NONE
                               THEN (grid[t] + 1) % 3
                               ELSE grid[t]
              /\ \A n \in DOMAIN path :
                    path[n].left = Reflect(grid[path[n].t], path[n].entered) ]_vars

\* The ray has crossed one mirror twice and was turned at the second crossing.
C14_Witness ==
    /\ call.op = "crypt"
    /\ \E m, n \in DOMAIN call.path :
          /\ m < n
          /\ call.path[m].t = call.path[n].t
          /\ call.path[n].unspun
          /\ call.path[n].left # call.path[n].entered

\* C15: the traversal is symmetric in entry and exit.  When the ray of a
\* crypt call enters the grid G at slot s and leaves at slot e, the ray
\* entering the same G at e leaves at s, and both leave the same grid.
C15_TraversalSymmetric ==
    [][ (call'.op = "crypt" /\ nCrypt' = nCrypt + 1) =>
          LET s == call'.startCharPos
              e == call'.endCharPos
              forth == Ray(grid, s)
              back  == Ray(grid, e)
          IN  /\ forth.endCharPos = e
              /\ back.endCharPos = s
              /\ back.grid = forth.grid
              /\ grid' = forth.grid ]_vars

\* A ray has been turned by a mirror and has crossed a cell twice before
\* leaving.
C15_Witness ==
    /\ call.op = "crypt"
    /\ call.endCharPos \in Slots \ {call.startCharPos}
    /\ \E t \in Cells : call.crossings[t] = 2
    /\ \E n \in DOMAIN call.path : call.path[n].left # call.path[n].entered

\* C16: on a grid that is empty in every cell, a crypt call leaves the grid
\* unchanged and its ray leaves at the slot opposite the start slot: s + 3N
\* for s in [0, N), s + N for s in [N, 2N), s - N for s in [2N, 3N), s - 3N
\* for s in [3N, 4N), N being GRID_SIZE.
C16_EmptyGridStraight ==
    [][ (call'.op = "crypt" /\ nCrypt' = nCrypt + 1
            /\ \A t \in Cells : grid[t] = MIRROR_NONE) =>
          LET s == call'.startCharPos
          IN  /\ grid' = grid
              /\ call'.endCharPos =
                    (IF s < GRID_SIZE THEN s + (3 * GRID_SIZE)
                     ELSE IF s < 2 * GRID_SIZE THEN s + GRID_SIZE
                     ELSE IF s < 3 * GRID_SIZE THEN s - GRID_SIZE
                     ELSE s - (3 * GRID_SIZE)) ]_vars

\* On an empty grid a second character has gone through, the ray crossing
\* GRID_SIZE cells from the top edge, and the perimeter has been rolled.
C16_Witness ==
    /\ call.op = "crypt"
    /\ nCrypt >= 2
    /\ \A t \in Cells : grid[t] = MIRROR_NONE
    /\ call.startCharPos < GRID_SIZE
    /\ Len(call.path) = GRID_SIZE
    /\ perimeterChars # loadPerim

(***************************************************************************)
(* keyfile_shuffle_string (keyfile.c): the scrambler of the key generator, *)
(* one action per loop iteration, the draws of rand() chosen freely.       *)
(***************************************************************************)
\* Longest string explored.
MaxStr == 3
\* Largest iteration count p explored.
MaxShuffle == 3

\* The characters of the explored strings.
ShuffleChars == {65, 66, 67}

\* The explored strings, as functions from 0 .. strlen - 1; strlen is at
\* least 2 (with a single character the inner while loop has no way out).
ShuffleStrings ==
    UNION { [0 .. (n - 1) -> ShuffleChars] : n \in 2 .. MaxStr }

\* The variables of the engine, untouched by the key generator.
cipherVars ==
    <<grid, perimeterChars, set_i, evenodd, lastStartCharPos, lastEndCharPos,
      peer, call, setCalls, setFailed, ready, nCrypt, loadGrid, loadPerim,
      halted, nInit>>

\* keyfile_shuffle_string(str, p) has been called.
InitShuffle ==
    /\ ProcessStart
    /\ \E str \in ShuffleStrings, p \in 0 .. MaxShuffle :
          shuffle = [pc |-> "entry", str |-> str, orig |-> str, p |-> p, i |-> 0,
                     sIndex |-> 0, rIndex |-> 0, c1 |-> 0, c2 |-> 0]

\* sIndex = rand() % strlen(str); rIndex = sIndex; c1 = str[rIndex]; i = 0.
ShuffleEnter ==
    /\ shuffle.pc = "entry"
    /\ \E sIndex \in DOMAIN shuffle.str :
          shuffle' = [shuffle EXCEPT !.pc = "loop", !.sIndex = sIndex,
                                     !.rIndex = sIndex,
                                     !.c1 = shuffle.str[sIndex], !.i = 0]
    /\ UNCHANGED cipherVars

\* ShuffleIterate that forgets c1 = c2.
ShuffleIterate_KeepCarry ==
    /\ shuffle.pc = "loop"
    /\ shuffle.i < shuffle.p
    /\ \E rIndex \in DOMAIN shuffle.str \ {shuffle.sIndex} :
          shuffle' = [shuffle EXCEPT !.rIndex = rIndex,
                                     !.c2 = shuffle.str[rIndex],
                                     !.str[rIndex] = shuffle.c1,
                                     !.i = shuffle.i + 1]
    /\ UNCHANGED cipherVars

\* One iteration of the for loop: the while loop draws rIndex until it
\* differs from sIndex; then c2 = str[rIndex]; str[rIndex] = c1; c1 = c2.
ShuffleIterate ==
    /\ shuffle.pc = "loop"
    /\ shuffle.i < shuffle.p
    /\ \E rIndex \in DOMAIN shuffle.str \ {shuffle.sIndex} :
          shuffle' = [shuffle EXCEPT !.rIndex = rIndex,
                                     !.c2 = shuffle.str[rIndex],
                                     !.str[rIndex] = shuffle.c1,
                                     !.c1 = shuffle.str[rIndex],
                                     !.i = shuffle.i + 1]
    /\ UNCHANGED cipherVars

\* After the loop: str[sIndex] = c1; return str.
ShuffleReturn ==
    /\ shuffle.pc = "loop"
    /\ shuffle.i >= shuffle.p
    /\ shuffle' = [shuffle EXCEPT !.pc = "done",
                                  !.str[shuffle.sIndex] = shuffle.c1]
    /\ UNCHANGED cipherVars

NextShuffle ==
    \/ ShuffleEnter
    \/ ShuffleIterate
    \/ ShuffleReturn

SpecShuffle == InitShuffle /\ [][NextShuffle]_vars

\* Occurrences of character ch in string str, slot `except` left out.
CountChar(str, ch, except) ==
    Cardinality({k \in DOMAIN str : k # except /\ str[k] = ch})

\* C17: keyfile_shuffle_string returns a permutation of its input: on return
\* every character occurs in str as often as it did at the call, and at
\* the top of every loop iteration (and after the last) the characters of
\* str outside slot sIndex together with the carried character c1 occur as
\* often as the characters of the input.
C17_ShufflePermutes ==
    /\ (shuffle.pc = "done") =>
          /\ DOMAIN shuffle.str = DOMAIN shuffle.orig
          /\ \A ch \in ShuffleChars :
                CountChar(shuffle.str, ch, -1) = CountChar(shuffle.orig, ch, -1)
    /\ (shuffle.pc = "loop") =>
          \A ch \in ShuffleChars :
              CountChar(shuffle.str, ch, shuffle.sIndex)
                    + (IF shuffle.c1 = ch THEN 1 ELSE 0)
                  = CountChar(shuffle.orig, ch, -1)

\* A call with p >= 2 on a string with a repeated character has returned a
\* string that differs from its input.
C17_Witness ==
    /\ shuffle.pc = "done"
    /\ shuffle.p >= 2
    /\ shuffle.i = shuffle.p
    /\ shuffle.str # shuffle.orig
    /\ \E a, b \in DOMAIN shuffle.orig : a # b /\ shuffle.orig[a] = shuffle.orig[b]

\* C18: in a crypt call on a validated key the un-spin is applied to mirrors
\* only: every loop iteration that found the visited mark of its cell set
\* found a code in {0, 1, 2} there, and a cell found empty has no mark and is
\* empty after the call.
C18_UnspinOnlyMirrors ==
    (call.op = "crypt" /\ call.status = "returned") =>
        \A n \in DOMAIN call.path :
            /\ call.path[n].unspun => call.path[n].held \in {0, 1, 2}
            /\ call.path[n].held = MIRROR_NONE =>
                  /\ ~call.path[n].unspun
                  /\ grid[call.path[n].t] = MIRROR_NONE

\* The un-spin has been applied in a second or later call: the ray came back
\* to a mirror it had spun, and the cell held the spun code.
C18_Witness ==
    /\ call.op = "crypt"
    /\ nCrypt >= 2
    /\ \E m, n \in DOMAIN call.path :
          /\ m < n
          /\ call.path[m].t = call.path[n].t
          /\ call.path[n].unspun
          /\ call.path[n].held = (call.path[m].held + 1) % 3

\* C19: every crypt call on a validated key with its input on the perimeter
\* terminates.  The ray has left the grid at a slot, after fewer iterations
\* than a repeated (cell, direction) pair needs, no cell crossed more than
\* twice; and each collision loop of the roll stopped after at most four
\* additions of GRID_SIZE/2 (one per barred position), at the roll position
\* the call used.
C19_CryptTerminates ==
    (call.op = "crypt") =>
        /\ call.status = "returned"
        /\ call.endCharPos \in Slots
        /\ Len(call.path) < RayFuel
        /\ \A t \in Cells : call.crossings[t] <= 2
        /\ LET ns == CollisionSteps(call.startRollFirst, call.startCharPos,
                                    call.endCharPos, call.prevStartCharPos,
                                    call.prevEndCharPos, 0)
               ne == CollisionSteps(call.endRollFirst, call.endCharPos,
                                    call.startCharPos, call.prevEndCharPos,
                                    call.prevStartCharPos, 0)
           IN  /\ ns <= 4
               /\ ne <= 4
               /\ call.startRollCharPos =
                     (call.startRollFirst + (ns * (GRID_SIZE \div 2))) % NPERIM
               /\ call.endRollCharPos =
                     (call.endRollFirst + (ne * (GRID_SIZE \div 2))) % NPERIM

\* A ray has gone round all four cells and come back to the first, and a
\* collision loop has made three additions.
C19_Witness ==
    /\ call.op = "crypt"
    /\ Len(call.path) > NCELLS
    /\ CollisionSteps(call.startRollFirst, call.startCharPos, call.endCharPos,
                      call.prevStartCharPos, call.prevEndCharPos, 0) >= 3

\* C20: in a crypt call on a validated key the ray never leaves at the slot
\* it entered, and the call returns its own input exactly when evenodd is 1
\* (after the toggle of the call) and the byte at the start slot or the byte
\* at the end slot equals its slot index.
C20_FixedPointOnlyByOverride ==
    [][ (call'.op = "crypt" /\ nCrypt' = nCrypt + 1) =>
          LET s == call'.startCharPos
              e == call'.endCharPos
          IN  /\ e # s
              /\ (call'.ret = call'.arg) <=>
                    /\ evenodd' = 1
                    /\ (perimeterChars[s] = s \/ perimeterChars[e] = e) ]_vars

\* The first call has returned its own input because the byte at the end
\* slot, not the one at the start slot, equalled its slot index.
C20_Witness ==
    /\ call.op = "crypt"
    /\ nCrypt = 1
    /\ call.ret = call.arg
    /\ call.endCharPos # call.startCharPos
    /\ loadPerim[call.startCharPos] # call.startCharPos
    /\ loadPerim[call.endCharPos] = call.endCharPos


====
